---------------------------- MODULE Spec2Model ----------------------------
(***************************************************************************)
(* DriveConnector (google_shared_drive_connector.py): repeated sequential  *)
(* runs of run_transfer against one BigQuery dataset.                      *)
(*                                                                         *)
(* A run is the script body: construct a DriveConnector, call run_transfer *)
(* (lines 371-372).  Runs happen either in a fresh Python process or in    *)
(* the process of the previous run; the difference is the class attribute  *)
(* files_added (line 40), which lives as long as the process.              *)
(*                                                                         *)
(* Remote calls are the steps of a run; what a remote call answers is an   *)
(* input chosen with \E.  The file listing is revealed one item at a time, *)
(* as the for loop of iterate_through_items reads it.  Mail transport is   *)
(* taken to succeed (send_mail.py is outside the engine).                  *)
(*                                                                         *)
(* Three more specifications share the module.  SpecOneRun is one run of   *)
(* the script over a longer listing.  SpecFunctions applies the functions  *)
(* on column labels and config entries (clean_column_str,                  *)
(* clean_column_names, prepare_df, create_schema) to inputs drawn in its   *)
(* initial state.  SpecStorage is StorageConnector.load_data_from_storage  *)
(* (google_storage_connector.py) over a bucket, run once or twice.  Each   *)
(* specification leaves the variables of the others at rest.               *)
(***************************************************************************)
EXTENDS Integers, Sequences, FiniteSets, Bags, TLC

(* ------------------------------ bounds -------------------------------- *)
\* longest file listing a run discovers, when runs follow one another
MaxItems == 3
\* longest file listing of the single run of SpecOneRun
MaxItemsOneRun == 6
\* a process starts another run while files_added is at most this long
MaxAdded == 2
\* longest listing that is remembered so that the next run can list it again
MaxReplay == 2
\* longest column label the functions on labels are applied to
MaxLabelLen == 3
\* StorageConnector: most blobs in the bucket
MaxBlobs == 2
\* StorageConnector: most lines in a blob
MaxLines == 2
\* StorageConnector: most rows in a table before the first run
MaxPrior == 1

(* --------------------------- program constants ------------------------ *)
\* upload_df_to_bq: "if self.counter % 5 == 0"
ThrottleEvery == 5
\* class attribute "counter = 1"
InitialCounter == 1

None == "None"

\* Names are sequences of characters, so that str.replace acts on them.
folder_1 == <<"f", "o", "l", "d", "e", "r", "_", "1">>
folder_2 == <<"f", "o", "l", "d", "e", "r", "_", "2">>
folder_3 == <<"f", "o", "l", "d", "e", "r", "_", "3">>
\* folders of the drive that configs does not list
folder_sp1 == <<"f", "o", "l", "d", "e", "r", " ", "1">>
folder_misc == <<"m", "i", "s", "c">>

\* configs['all_folders']
all_folders == {folder_1, folder_2, folder_3}

\* str.replace(old, new) for a one-character old
Replace(s, old, new) == [i \in DOMAIN s |-> IF s[i] = old THEN new ELSE s[i]]

\* the tables of the dataset the connector can name: {dataset}.{folder_name}
Tables == {Replace(f, " ", "_") : f \in all_folders}

(* ------------------------------ the drive ----------------------------- *)
\* the drive this connector is configured for (shared_drive_name) and another
DriveMine == [id |-> "drive_1", name |-> "shared_drive_name"]
DriveOther == [id |-> "drive_0", name |-> "other_drive"]
\* answers of drives().list
DriveListings ==
    { <<>>, <<DriveOther>>, <<DriveMine>>, <<DriveOther, DriveMine>> }

\* answer of the folder query: files(id, name)
FolderListing ==
    << [id |-> "p1", name |-> folder_1],
       [id |-> "p3", name |-> folder_3],
       [id |-> "ps", name |-> folder_sp1],
       [id |-> "px", name |-> folder_misc] >>

\* a listed file: files(id, name, mimeType, parents, trashed); content is what
\* the download and the load of that file do:
\*   ok        parses to a non-empty table and loads
\*   empty     parses to a table with zero rows
\*   badshape  parses, and load_table_from_dataframe raises ValueError
\*   loaderr   parses, and the load raises another error (e.g. BadRequest)
\*   fetcherr  the download raises an error that is no ValueError
File(n, p, t, c) ==
    [name |-> n, parents |-> <<p>>, trashed |-> t, content |-> c]

Items ==
    { File("a.csv", "p1", FALSE, "ok"),
      File("b.csv", "p1", FALSE, "ok"),
      File("a.csv", "p3", FALSE, "ok"),
      File("c.csv", "p1", FALSE, "badshape"),
      File("e.csv", "p1", FALSE, "empty"),
      File("l.csv", "p3", FALSE, "loaderr"),
      File("d.csv", "p1", FALSE, "fetcherr"),
      File("t.csv", "p1", TRUE, "ok"),
      File("s.csv", "ps", FALSE, "ok"),
      File("x.csv", "px", FALSE, "ok"),
      File("u.csv", "p0", FALSE, "ok") }

FileNames == {it.name : it \in Items}
NoItem == File("", "", FALSE, "")

VARIABLES
    bq_tables,        \* BigQuery: the tables of the dataset that exist
    bq_rows,          \* BigQuery: a bag holding <<table, `file` marker>> once
                      \* for every load that appended rows so marked
    files_added,      \* DriveConnector.files_added, a class attribute
    counter,          \* self.counter of the current instance
    pc,               \* position of the current run in run_transfer
    shared_drive_id,  \* run_transfer: shared_drive_id
    folders_dict,     \* run_transfer: folders_dict
    list_requests,    \* history: files().list requests sent in this run
    nitems,           \* length of the listing got by get_items_ids
    pos,              \* number of items the for loop has taken
    item,             \* iterate_through_items: item
    err_mails,        \* mails sent by send_error_mail in this run
    summary,          \* mails sent by send_confirmation_mail in this run
    crash,            \* where an exception left run_transfer, or None
    outcome,          \* what became of the last item taken
    attempts,         \* history: calls of upload_df_to_bq in this run
    delays,           \* history: the attempts of this run that slept first
    loaded_run,       \* history: names whose load job completed in this run
    listing,          \* history: the listing of this run, if short enough
    replay,           \* the listing this run lists again, when rerun
    rerun,            \* this run lists what the run before it listed
    prev_loaded,      \* history: loaded_run of the run before a rerun
    \* the functions on column labels and configs, applied to inputs
    fpc,              \* which of the functions have been applied
    label,            \* input: a column label
    str_once,         \* clean_column_str(label)
    names_once,       \* clean_column_names of an index holding label
    str_twice,        \* clean_column_str(str_once)
    names_twice,      \* clean_column_names(names_once)
    schema_of,        \* input: a folder name and its config entry
    schema,           \* create_schema for schema_of
    data_columns,     \* prepare_df's labels for the columns of schema_of
    \* StorageConnector.load_data_from_storage
    spc,              \* position of the run in load_data_from_storage
    bucket,           \* input: the blobs of the bucket, name -> content
    tables_to_skip,   \* input: self.tables_to_skip
    num_rows,         \* BigQuery: rows of each table of the dataset
    todo,             \* the blobs the loops have yet to take
    blob,             \* load_data_from_storage: blob (its name)
    rows_loaded,      \* check_if_all_rows_uploaded: rows_loaded
    appended,         \* history: rows the last load job appended
    verdict,          \* what was printed for the blob taken last
    scrash,           \* the exception that left the run, or None
    loads,            \* history: bag of names, one copy per completed load
    reran             \* the script has been run a second time

vars == << bq_tables, bq_rows, files_added, counter, pc, shared_drive_id,
           folders_dict, list_requests, nitems, pos, item, err_mails,
           summary, crash, outcome, attempts, delays, loaded_run, listing,
           replay, rerun, prev_loaded,
           fpc, label, str_once, names_once, str_twice, names_twice,
           schema_of, schema, data_columns,
           spc, bucket, tables_to_skip, num_rows, todo, blob, rows_loaded,
           appended, verdict, scrash, loads, reran >>

\* the state of the connector's runs
drive_vars ==
    << bq_tables, bq_rows, files_added, counter, pc, shared_drive_id,
       folders_dict, list_requests, nitems, pos, item, err_mails,
       summary, crash, outcome, attempts, delays, loaded_run, listing,
       replay, rerun, prev_loaded >>

\* the state of the function applications
function_vars ==
    << fpc, label, str_once, names_once, str_twice, names_twice,
       schema_of, schema, data_columns >>

\* the state of the StorageConnector, its bucket and its tables
storage_vars ==
    << spc, bucket, tables_to_skip, num_rows, todo, blob, rows_loaded,
       appended, verdict, scrash, loads, reran >>

\* what a step of a run leaves alone
not_drive == << function_vars, storage_vars >>

bq == << bq_tables, bq_rows >>
hist == << attempts, delays, loaded_run >>
run_transfer_locals ==
    << shared_drive_id, folders_dict, list_requests, nitems >>


(* ------------------------- functions of the code ---------------------- *)
\* the loads that appended rows with file = file_name to a table
Loads(table, file_name) == CopiesIn(<< table, file_name >>, bq_rows)

\* get_shared_drive_id: the id of the first listed drive with the configured
\* name; neither RuntimeError is raised (lines 70, 77 build the exception
\* and drop it), so the method falls off its end and returns None.
get_shared_drive_id(items) ==
    LET hits == {i \in DOMAIN items : items[i].name = DriveMine.name}
    IN  IF items = <<>> \/ hits = {}
        THEN None
        ELSE items[CHOOSE i \in hits : \A j \in hits : i <= j].id

\* run_transfer: {d['id']: d['name'] for d in folders_ids}
FoldersDict(folders_ids) ==
    [i \in {folders_ids[k].id : k \in DOMAIN folders_ids} |->
        LET ks == {k \in DOMAIN folders_ids : folders_ids[k].id = i}
        IN  folders_ids[CHOOSE k \in ks : \A j \in ks : j <= k].name]

\* no folder name
NoFolder == <<>>

\* iterate_through_items, lines 320-328: the table an item goes to, or
\* NoFolder when the loop passes it over.
TargetFolder_KeepsTrashed(it, fd) ==
    LET parent == it.parents[1]
    IN  IF parent \in DOMAIN fd /\ fd[parent] \in all_folders
        THEN Replace(fd[parent], " ", "_")
        ELSE NoFolder

TargetFolder(it, fd) ==
    IF it.trashed
    THEN NoFolder
    ELSE LET parent == it.parents[1]
         IN  IF parent \notin DOMAIN fd
             THEN NoFolder
             ELSE IF fd[parent] \in all_folders
                  THEN Replace(fd[parent], " ", "_")
                  ELSE NoFolder

\* if_table_not_in_bq with a query that is answered: NotFound -> True,
\* total_rows != 0 -> False, otherwise True.
if_table_not_in_bq_NeverSkips(folder_name, file_name) == TRUE

if_table_not_in_bq_MissingTableSkips(folder_name, file_name) ==
    /\ folder_name \in bq_tables
    /\ Loads(folder_name, file_name) = 0

if_table_not_in_bq(folder_name, file_name) ==
    IF folder_name \notin bq_tables
    THEN TRUE
    ELSE IF Loads(folder_name, file_name) # 0
         THEN FALSE
         ELSE TRUE

\* upload_df_to_bq, line 205
SleepsFirst_OffByOne(c) == (c + 1) % ThrottleEvery = 0

SleepsFirst(c) == c % ThrottleEvery = 0

\* upload_csv_to_bq lines 285-286: an empty table raises ValueError inside
\* the try block, before prepare_df and upload_df_to_bq.
IsEmptyTable_Unchecked(content) == FALSE

IsEmptyTable(content) == content = "empty"

\* What the load job of upload_df_to_bq raises for a file: ValueError for a
\* table whose values do not fit the schema, another error (BadRequest,
\* Forbidden, a timeout) for a load the service refuses, None otherwise.
LoadRaises(content) ==
    CASE content = "badshape" -> "ValueError"
      [] content = "loaderr" -> "BadRequest"
      [] OTHER -> None

\* upload_df_to_bq line 221: except ValueError
LoadCatches_Nothing(error) == FALSE

LoadCatches(error) == error = "ValueError"

\* send_confirmation_mail: subject and body of the summary
send_confirmation_mail(added) ==
    IF added # <<>>
    THEN [subject |-> "Drive to BQ Upload: Transfer completed",
          text |-> "Files added: ", files |-> added]
    ELSE [subject |-> "Drive to BQ Upload: No file uploaded",
          text |-> "No file from Drive was added to BQ", files |-> <<>>]

(* ----------------------- column names and schema ---------------------- *)
\* Column labels are sequences of characters.  Two characters outside ASCII
\* are named by their code points: the no-break space and e with acute.
NBSP == "U+00A0"
e_acute == "U+00E9"

\* the characters the labels of the inputs are made of
Chars == {"a", e_acute, NBSP, " ", "-", "+", "[", "]"}

\* chars_to_replace, line 20
chars_to_replace == << " ", "%", "-", "(", ")", "[", "]", "/" >>

plus == << "p", "l", "u", "s" >>
minus == << "m", "i", "n", "u", "s" >>

\* str.replace(old, new) for a non-empty string old: the occurrences of old
\* from left to right, not overlapping
RECURSIVE str_replace(_, _, _)
str_replace(s, old, new) ==
    IF Len(s) < Len(old)
    THEN s
    ELSE IF SubSeq(s, 1, Len(old)) = old
         THEN new \o str_replace(SubSeq(s, Len(old) + 1, Len(s)), old, new)
         ELSE << Head(s) >> \o str_replace(Tail(s), old, new)

\* unidecode.unidecode (lines 232, 241): the ASCII transliteration of a
\* string, character by character.  ASCII is kept, e with acute gives "e",
\* the no-break space gives a space.
unidecode_char(c) ==
    CASE c = e_acute -> "e"
      [] c = NBSP -> " "
      [] OTHER -> c

unidecode(s) == [i \in DOMAIN s |-> unidecode_char(s[i])]

\* clean_column_str, lines 230-231: for char in chars_to_replace:
\* column = column.replace(char, '_'), from the k-th char on
RECURSIVE replace_chars(_, _)
replace_chars(column, k) ==
    IF k > Len(chars_to_replace)
    THEN column
    ELSE replace_chars(str_replace(column, << chars_to_replace[k] >>, << "_" >>),
                       k + 1)

\* clean_column_str, lines 225-232
clean_column_str(column) ==
    LET column_1 == str_replace(column, << "[", "+", "]" >>, plus)
        column_2 == str_replace(column_1, << "[", "-", "]" >>, minus)
    IN  unidecode(replace_chars(column_2, 1))

\* Index.str.replace(pat, repl, regex=False): str.replace on every element
Index_str_replace(columns, pat, repl) ==
    [i \in DOMAIN columns |-> str_replace(columns[i], pat, repl)]

\* Index.str.replace(pat, repl) taking pat for a regular expression: "[+]"
\* and "[-]" are classes of one character
Index_str_replace_regex(columns, pat, repl) ==
    [i \in DOMAIN columns |->
        IF Len(pat) = 3 /\ pat[1] = "[" /\ pat[3] = "]"
        THEN str_replace(columns[i], << pat[2] >>, repl)
        ELSE str_replace(columns[i], pat, repl)]

\* clean_column_names, lines 239-240: the loop over chars_to_replace on the
\* whole index
RECURSIVE replace_chars_in_index(_, _)
replace_chars_in_index(columns, k) ==
    IF k > Len(chars_to_replace)
    THEN columns
    ELSE replace_chars_in_index(
             Index_str_replace(columns, << chars_to_replace[k] >>, << "_" >>),
             k + 1)

\* clean_column_names, lines 234-242
clean_column_names_Regex(columns) ==
    LET columns_1 == Index_str_replace_regex(columns, << "[", "+", "]" >>, plus)
        columns_2 == Index_str_replace_regex(columns_1, << "[", "-", "]" >>, minus)
        columns_3 == replace_chars_in_index(columns_2, 1)
    IN  [i \in DOMAIN columns_3 |-> unidecode(columns_3[i])]

clean_column_names(columns) ==
    LET columns_1 == Index_str_replace(columns, << "[", "+", "]" >>, plus)
        columns_2 == Index_str_replace(columns_1, << "[", "-", "]" >>, minus)
        columns_3 == replace_chars_in_index(columns_2, 1)
    IN  [i \in DOMAIN columns_3 |-> unidecode(columns_3[i])]

\* bq_types_mapping, lines 22-27; Python types by their names
bq_types_mapping ==
    [ t \in {"int", "str", "float", "bool"} |->
        CASE t = "int" -> "INT64"
          [] t = "str" -> "STRING"
          [] t = "float" -> "FLOAT64"
          [] t = "bool" -> "BOOLEAN" ]

\* the column names of google_shared_drive_configs.py
column_(n) == << "c", "o", "l", "u", "m", "n", "_", n >>
col_date == << "c", "o", "l", "_", "d", "a", "t", "e" >>
date_col == << "d", "a", "t", "e", "_", "c", "o", "l" >>

\* folder3_columns_to_float, line 28
folder3_columns_to_float == << column_("4"), column_("5") >>

\* configs: the entries of the folders.  A dict is the sequence of its
\* items, in the order they were written (dict keeps insertion order).
\* skip_rows and encoding are read by get_df_from_file_id only.
configs ==
    [ f \in all_folders |->
        IF f \in {folder_1, folder_2}
        THEN [ date_cols |-> << col_date >>,
               dtypes |-> << << column_("1"), "int" >>,
                             << column_("2"), "str" >>,
                             << column_("3"), "str" >>,
                             << column_("4"), "float" >>,
                             << column_("5"), "float" >>,
                             << column_("6"), "str" >>,
                             << column_("7"), "float" >> >> ]
        ELSE [ date_cols |-> << date_col >>,
               dtypes |-> << << column_("1"), "str" >>,
                             << column_("2"), "int" >>,
                             << column_("3"), "str" >>,
                             << column_("4"), "str" >>,
                             << column_("5"), "float" >>,
                             << column_("6"), "str" >>,
                             << column_("7"), "float" >> >> ] ]

\* create_schema, lines 187-188: configs[folder_name].get('date_cols') and
\* "if date_cols:", false for a missing key and for an empty list
date_cols_given(config) ==
    /\ "date_cols" \in DOMAIN config
    /\ config["date_cols"] # << >>

\* the elements of a sequence
Range(s) == {s[i] : i \in DOMAIN s}

\* create_schema, lines 175-186: one field per item of dtypes
DtypeFields(folder_name, dtypes) ==
    [ i \in DOMAIN dtypes |->
        LET column == dtypes[i][1]
            type == IF /\ folder_name = folder_3
                       /\ column \in Range(folder3_columns_to_float)
                    THEN "float"
                    ELSE dtypes[i][2]
        IN  [ name |-> clean_column_str(column),
              type |-> bq_types_mapping[type],
              description |-> column ] ]

\* create_schema, lines 189-197: one TIMESTAMP field per date column
DateFields(date_cols) ==
    [ i \in DOMAIN date_cols |->
        [ name |-> clean_column_str(date_cols[i]),
          type |-> "TIMESTAMP",
          description |-> date_cols[i] ] ]

\* create_schema, with config for configs[folder_name]
create_schema_NoDates(folder_name, config) ==
    DtypeFields(folder_name, config.dtypes)

create_schema(folder_name, config) ==
    IF date_cols_given(config)
    THEN DtypeFields(folder_name, config.dtypes)
             \o DateFields(config["date_cols"])
    ELSE DtypeFields(folder_name, config.dtypes)

ts_ms == << "t", "s", "_", "m", "s" >>
file == << "f", "i", "l", "e" >>

\* DataFrame.rename(columns={old: new})
rename(columns, old, new) ==
    [i \in DOMAIN columns |-> IF columns[i] = old THEN new ELSE columns[i]]

\* prepare_df_folder12 on the column labels
prepare_df_folder12(columns) ==
    rename(rename(columns, << "[", "-", "]", " " >>, << "[", "-", "]" >>),
           << "[", "+", "]", " " >>, << "[", "+", "]" >>)

\* prepare_df on the column labels of a parsed file that has neither a column
\* 'file' nor a column 'ts_ms': 'file' is added last, 'ts_ms' is inserted
\* first, the labels are cleaned.  prepare_df_folder3 changes values only.
prepare_df(columns, folder_name) ==
    LET df_columns == IF folder_name \in {folder_1, folder_2}
                      THEN prepare_df_folder12(columns)
                      ELSE columns
    IN  clean_column_names(<< ts_ms >> \o df_columns \o << file >>)

(* -------------------------- StorageConnector -------------------------- *)
\* google_storage_connector.py.  Blob names are sequences of characters.
year_2018 == << "2", "0", "1", "8" >>
year_2019 == << "2", "0", "1", "9" >>
year_2020 == << "2", "0", "2", "0" >>

\* __main__, line 123
years == << year_2018, year_2019, year_2020 >>

csv_gz == << ".", "c", "s", "v", ".", "g", "z" >>

\* The names a blob of the bucket can have, in the order list_blobs returns
\* names (lexicographic): "2018.csv.gz", "2018/ev.csv.gz", "2018/us.csv.gz",
\* "2019/ev.csv.gz".
BlobNames ==
    << year_2018 \o csv_gz,
       year_2018 \o << "/", "e", "v" >> \o csv_gz,
       year_2018 \o << "/", "u", "s" >> \o csv_gz,
       year_2019 \o << "/", "e", "v" >> \o csv_gz >>

\* the tables_to_skip a connector is constructed with
SkipLists == { << >>, << << "u" >> >> }

\* What a blob holds: a gzip file of so many lines (a header line first when
\* there is any line, no line break inside a field), which BigQuery can load
\* or, when ok is FALSE, refuses with BadRequest.
BlobContents ==
    {[lines |-> n, ok |-> TRUE] : n \in 0..MaxLines}
        \cup {[lines |-> 1, ok |-> FALSE]}

\* the buckets: at most MaxBlobs blobs, each under a name of its own
Buckets ==
    UNION { [names -> BlobContents] :
            names \in {ns \in SUBSET Range(BlobNames) : Cardinality(ns) <= MaxBlobs} }

\* the data records of a blob: its lines after the header line
DataRecords(content) == IF content.lines = 0 THEN 0 ELSE content.lines - 1

\* str.split(sep) for a one-character sep
RECURSIVE split(_, _)
split(s, sep) ==
    LET at == {i \in DOMAIN s : s[i] = sep}
    IN  IF at = {}
        THEN << s >>
        ELSE LET i == CHOOSE i \in at : \A j \in at : i <= j
             IN  << SubSeq(s, 1, i - 1) >>
                     \o split(SubSeq(s, i + 1, Len(s)), sep)

\* get_table_name_from_blob: blob.name.split("/")[1] raises IndexError when
\* the name holds no "/"
NameRaises(name) == Len(split(name, "/")) < 2

\* get_table_name_from_blob: blob.name.split("/")[1].split(".")[0]
get_table_name_from_blob(name) == split(split(name, "/")[2], ".")[1]

\* "t_to_skip in table_name" for strings
IsSubstring(sub, s) ==
    \E i \in 1..(Len(s) + 1) :
        /\ i + Len(sub) - 1 <= Len(s)
        /\ SubSeq(s, i, i + Len(sub) - 1) = sub

\* check_if_table_to_skip
check_if_table_to_skip(skip, table_name) ==
    \E k \in DOMAIN skip : IsSubstring(skip[k], table_name)

\* list_blobs(prefix=year): the names of the bucket that start with year,
\* in lexicographic order
StartsWith(s, prefix) ==
    Len(s) >= Len(prefix) /\ SubSeq(s, 1, Len(prefix)) = prefix

list_blobs(bkt, year) ==
    SelectSeq(BlobNames, LAMBDA n : n \in DOMAIN bkt /\ StartsWith(n, year))

\* load_data_from_storage, lines 100-101: the blobs the two loops visit
RECURSIVE BlobsOfYears(_, _)
BlobsOfYears(bkt, y) ==
    IF y > Len(years)
    THEN << >>
    ELSE list_blobs(bkt, years[y]) \o BlobsOfYears(bkt, y + 1)

\* count_lines, lines 82-85: "for lines, l in enumerate(g): pass" leaves in
\* lines the index of the last line.  With no line the loop binds nothing
\* and reading lines raises UnboundLocalError.
CountRaises(content) == content.lines = 0

count_lines(content) == content.lines - 1

\* the tables a blob name of the bucket leads to
StorageTables ==
    {get_table_name_from_blob(BlobNames[k]) :
        k \in {j \in DOMAIN BlobNames : ~NameRaises(BlobNames[j])}}

\* the rows of the tables before the first run: none, or some in one table
Priors ==
    {[t \in StorageTables |-> 0]}
        \cup {[t \in StorageTables |-> IF t = u THEN n ELSE 0] :
                 u \in StorageTables, n \in 1..MaxPrior}

(* -------------------------------- Init -------------------------------- *)
\* Before the first run: a dataset without tables (a load creates the table
\* it appends to), a process that has not run the connector.
InitDrive ==
    /\ bq_tables = {}
    /\ bq_rows = EmptyBag
    /\ files_added = <<>>
    /\ counter = InitialCounter
    /\ pc = "idle"
    /\ shared_drive_id = "unset"
    /\ folders_dict = <<>>
    /\ list_requests = 0
    /\ nitems = 0
    /\ pos = 0
    /\ item = NoItem
    /\ err_mails = 0
    /\ summary = <<>>
    /\ crash = None
    /\ outcome = "none"
    /\ attempts = 0
    /\ delays = {}
    /\ loaded_run = <<>>
    /\ listing = <<>>
    /\ replay = <<>>
    /\ rerun = FALSE
    /\ prev_loaded = <<>>

\* no function has been applied to anything
NoFunction ==
    /\ fpc = "off"
    /\ label = << >>
    /\ str_once = << >>
    /\ names_once = << >>
    /\ str_twice = << >>
    /\ names_twice = << >>
    /\ schema_of = << >>
    /\ schema = << >>
    /\ data_columns = << >>

\* no StorageConnector
NoStorage ==
    /\ spc = "off"
    /\ bucket = << >>
    /\ tables_to_skip = << >>
    /\ num_rows = << >>
    /\ todo = << >>
    /\ blob = << >>
    /\ rows_loaded = 0
    /\ appended = 0
    /\ verdict = "none"
    /\ scrash = None
    /\ loads = EmptyBag
    /\ reran = FALSE

Init == InitDrive /\ NoFunction /\ NoStorage

(* ------------------------------- actions ------------------------------ *)
RunOver == pc \in {"idle", "done", "crashed"}

\* the listing of the run that just completed is known in full
Replayable == pc = "done" /\ Len(listing) = nitems

\* An exception leaves run_transfer.
Crash(cause) ==
    /\ pc' = "crashed"
    /\ crash' = cause
    /\ outcome' = "none"

\* The script body, lines 371-372 up to the first remote call: a new
\* DriveConnector.  files_added is the class attribute: a new process starts
\* it empty, a new instance in the same process does not.  counter is read
\* from the class (1) until the instance first assigns it.
StartRun(new_process, again) ==
    /\ RunOver
    /\ UNCHANGED not_drive
    /\ ~new_process => Len(files_added) <= MaxAdded
    /\ again => Replayable
    /\ files_added' = IF new_process THEN <<>> ELSE files_added
    /\ counter' = InitialCounter
    /\ pc' = "drive"
    /\ shared_drive_id' = "unset"
    /\ folders_dict' = <<>>
    /\ list_requests' = 0
    /\ nitems' = 0
    /\ pos' = 0
    /\ item' = NoItem
    /\ err_mails' = 0
    /\ summary' = <<>>
    /\ crash' = None
    /\ outcome' = "none"
    /\ attempts' = 0
    /\ delays' = {}
    /\ loaded_run' = <<>>
    /\ listing' = <<>>
    /\ rerun' = again
    /\ replay' = IF again THEN listing ELSE <<>>
    /\ prev_loaded' = IF again THEN loaded_run ELSE <<>>
    /\ UNCHANGED bq

\* run_transfer line 350: get_shared_drive_id
GetSharedDriveId ==
    /\ pc = "drive"
    /\ UNCHANGED not_drive
    /\ \/ /\ Crash("discovery")
          /\ UNCHANGED shared_drive_id
       \/ \E drives \in DriveListings :
            /\ shared_drive_id' = get_shared_drive_id(drives)
            /\ pc' = "folders"
            /\ UNCHANGED << crash, outcome >>
    /\ UNCHANGED << bq, files_added, counter, folders_dict, list_requests,
                    nitems, pos, item, err_mails, summary, hist, listing,
                    replay, rerun, prev_loaded >>

\* get_files_from_drive is called with whatever get_shared_drive_id
\* returned.  The client drops a driveId of None from the request, and Drive
\* answers a corpora='drive' request without driveId with an error.
DriveAnswers(drive_id) == drive_id # None

\* run_transfer lines 351-352: get_folders_ids and folders_dict
GetFoldersIds ==
    /\ pc = "folders"
    /\ UNCHANGED not_drive
    /\ list_requests' = list_requests + 1
    /\ \/ /\ Crash("discovery")
          /\ UNCHANGED folders_dict
       \/ /\ DriveAnswers(shared_drive_id)
          /\ folders_dict' = FoldersDict(FolderListing)
          /\ pc' = "items"
          /\ UNCHANGED << crash, outcome >>
    /\ UNCHANGED << bq, files_added, counter, shared_drive_id, nitems, pos,
                    item, err_mails, summary, hist, listing, replay, rerun,
                    prev_loaded >>

\* run_transfer lines 353-357: get_items_ids; an empty listing builds a
\* RuntimeError, does not raise it, and the method returns.
GetItemsIds(longest) ==
    /\ pc = "items"
    /\ UNCHANGED not_drive
    /\ list_requests' = list_requests + 1
    /\ \/ /\ Crash("discovery")
          /\ UNCHANGED nitems
       \/ \E n \in 0..longest :
            /\ DriveAnswers(shared_drive_id)
            /\ rerun => n = Len(replay)
            /\ nitems' = n
            /\ pc' = IF n = 0 THEN "done" ELSE "loop"
            /\ UNCHANGED << crash, outcome >>
    /\ UNCHANGED << bq, files_added, counter, shared_drive_id, folders_dict,
                    pos, item, err_mails, summary, hist, listing, replay,
                    rerun, prev_loaded >>

\* iterate_through_items lines 319-328: the loop takes the next item
NextItem ==
    /\ pc = "loop"
    /\ UNCHANGED not_drive
    /\ pos < nitems
    /\ \E it \in Items :
         /\ rerun => it = replay[pos + 1]
         /\ item' = it
         /\ listing' = IF nitems <= MaxReplay
                       THEN Append(listing, it)
                       ELSE listing
         /\ IF TargetFolder(it, folders_dict) = NoFolder
            THEN /\ outcome' = "SkippedFilteredOut"
                 /\ pc' = "loop"
            ELSE /\ outcome' = "none"
                 /\ pc' = "gate"
    /\ pos' = pos + 1
    /\ UNCHANGED << bq, files_added, counter, run_transfer_locals,
                    err_mails, summary, crash, hist, replay, rerun,
                    prev_loaded >>

\* iterate_through_items line 329: if_table_not_in_bq.  The query may fail
\* with an error that is not NotFound; nothing catches it.
Gate ==
    /\ pc = "gate"
    /\ UNCHANGED not_drive
    /\ \/ Crash("dedup_query")
       \/ /\ IF if_table_not_in_bq(TargetFolder(item, folders_dict), item.name)
             THEN /\ pc' = "fetch"
                  /\ outcome' = "none"
             ELSE /\ pc' = "loop"
                  /\ outcome' = "SkippedAlreadyPresent"
          /\ UNCHANGED crash
    /\ UNCHANGED << bq, files_added, counter, run_transfer_locals, pos,
                    item, err_mails, summary, hist, listing, replay, rerun,
                    prev_loaded >>

\* upload_csv_to_bq lines 283-289: download, parse, empty check
Fetch ==
    /\ pc = "fetch"
    /\ UNCHANGED not_drive
    /\ \/ /\ item.content = "fetcherr"
          /\ Crash("fetch")
          /\ UNCHANGED err_mails
       \/ /\ item.content # "fetcherr"
          /\ IsEmptyTable(item.content)
          /\ err_mails' = err_mails + 1
          /\ outcome' = "SkippedEmpty"
          /\ pc' = "loop"
          /\ UNCHANGED crash
       \/ /\ item.content # "fetcherr"
          /\ ~IsEmptyTable(item.content)
          /\ pc' = "load"
          /\ UNCHANGED << err_mails, outcome, crash >>
    /\ UNCHANGED << bq, files_added, counter, run_transfer_locals, pos,
                    item, summary, hist, listing, replay, rerun,
                    prev_loaded >>

\* upload_csv_to_bq lines 290-293 with upload_df_to_bq: sleep when due,
\* load with WRITE_APPEND (every row carries file = file_name), count, record.
Load ==
    /\ pc = "load"
    /\ UNCHANGED not_drive
    /\ LET folder_name == TargetFolder(item, folders_dict)
           file_name == item.name
       IN  /\ attempts' = attempts + 1
           /\ delays' = IF SleepsFirst(counter)
                        THEN delays \cup {attempts + 1}
                        ELSE delays
           /\ \/ /\ LoadRaises(item.content) = None
                 /\ bq_tables' = bq_tables \cup {folder_name}
                 /\ bq_rows' = bq_rows (+) SetToBag({<< folder_name, file_name >>})
                 /\ counter' = counter + 1
                 /\ files_added' = Append(files_added, file_name)
                 /\ loaded_run' = Append(loaded_run, file_name)
                 /\ outcome' = "Loaded"
                 /\ pc' = "loop"
                 /\ UNCHANGED << err_mails, crash >>
              \/ /\ LoadRaises(item.content) # None
                 /\ LoadCatches(LoadRaises(item.content))
                 /\ err_mails' = err_mails + 1
                 /\ counter' = counter + 1
                 /\ files_added' = Append(files_added, file_name)
                 /\ outcome' = "SkippedLoadError"
                 /\ pc' = "loop"
                 /\ UNCHANGED << bq, loaded_run, crash >>
              \/ /\ LoadRaises(item.content) # None
                 /\ ~LoadCatches(LoadRaises(item.content))
                 /\ Crash("load")
                 /\ UNCHANGED << bq, counter, files_added, loaded_run,
                                 err_mails >>
    /\ UNCHANGED << run_transfer_locals, pos, item, summary, listing,
                    replay, rerun, prev_loaded >>

\* iterate_through_items line 332: the loop is over, send_confirmation_mail
LoopEnd ==
    /\ pc = "loop"
    /\ UNCHANGED not_drive
    /\ pos = nitems
    /\ summary' = Append(summary, send_confirmation_mail(files_added))
    /\ pc' = "done"
    /\ UNCHANGED << bq, files_added, counter, run_transfer_locals, pos,
                    item, err_mails, crash, outcome, hist, listing, replay,
                    rerun, prev_loaded >>

\* the steps of a run after its start and before its listing, and after it
Discover == GetSharedDriveId \/ GetFoldersIds

Iterate == NextItem \/ Gate \/ Fetch \/ Load \/ LoopEnd

\* Runs one after the other, each in a new process or in the process of the
\* run before it, each over a fresh listing or over the listing of the run
\* before it.
Next ==
    \/ \E new_process, again \in BOOLEAN : StartRun(new_process, again)
    \/ Discover
    \/ GetItemsIds(MaxItems)
    \/ Iterate

Spec == Init /\ [][Next]_vars

\* One execution of the script, over a longer listing.
NextOneRun ==
    \/ (pc = "idle" /\ StartRun(TRUE, FALSE))
    \/ Discover
    \/ GetItemsIds(MaxItemsOneRun)
    \/ Iterate

SpecOneRun == Init /\ [][NextOneRun]_vars

(* --------------------- the functions, applied to inputs --------------- *)
\* the column labels the functions are applied to
Labels == UNION {[1..n -> Chars] : n \in 0..MaxLabelLen}

\* Config entries create_schema is applied to for a folder: the entry of
\* configs, with all, two or none of its dtypes, and with its date_cols,
\* without the key, with an empty list, with two date columns.
ConfigVariants(f) ==
    LET given == configs[f]
        all_dtypes == {SubSeq(given.dtypes, 1, k) : k \in {0, 2, Len(given.dtypes)}}
    IN  UNION { { [dtypes |-> d, date_cols |-> given.date_cols],
                  [dtypes |-> d],
                  [dtypes |-> d, date_cols |-> << >>],
                  [dtypes |-> d, date_cols |-> << col_date, date_col >>] }
                : d \in all_dtypes }

\* the column labels of a parsed file that has the columns its config
\* entry declares: those of dtypes, then the date columns
DeclaredColumns(config) ==
    [i \in DOMAIN config.dtypes |-> config.dtypes[i][1]]
        \o (IF "date_cols" \in DOMAIN config THEN config["date_cols"] ELSE << >>)

\* a folder of the configs with a config entry for it
ConfigInputs ==
    UNION { { [folder_name |-> f, config |-> c] : c \in ConfigVariants(f) }
            : f \in all_folders }

\* the input is a column label, or a folder with a config entry
InitFunctions ==
    /\ InitDrive
    /\ NoStorage
    /\ \/ /\ fpc = "label"
          /\ label \in Labels
          /\ schema_of = << >>
       \/ /\ fpc = "config"
          /\ label = << >>
          /\ schema_of \in ConfigInputs
    /\ str_once = << >>
    /\ names_once = << >>
    /\ str_twice = << >>
    /\ names_twice = << >>
    /\ schema = << >>
    /\ data_columns = << >>

\* clean_column_str on the label
CleanColumnStr ==
    /\ fpc = "label"
    /\ str_once' = clean_column_str(label)
    /\ fpc' = "str"
    /\ UNCHANGED << drive_vars, storage_vars, label, names_once, str_twice, names_twice,
                    schema_of, schema, data_columns >>

\* clean_column_names on the index prepare_df gives it (line 166) for a
\* parsed file with the one column label
CleanColumnNames ==
    /\ fpc = "str"
    /\ names_once' = clean_column_names(<< ts_ms, label, file >>)
    /\ fpc' = "names"
    /\ UNCHANGED << drive_vars, storage_vars, label, str_once, str_twice, names_twice,
                    schema_of, schema, data_columns >>

\* both functions on their own results
CleanAgain ==
    /\ fpc = "names"
    /\ str_twice' = clean_column_str(str_once)
    /\ names_twice' = clean_column_names(names_once)
    /\ fpc' = "again"
    /\ UNCHANGED << drive_vars, storage_vars, label, str_once, names_once,
                    schema_of, schema, data_columns >>

\* create_schema for a folder and a config entry, and prepare_df's column
\* labels for a file of that folder
CreateSchema ==
    /\ fpc = "config"
    /\ schema' = create_schema(schema_of.folder_name, schema_of.config)
    /\ data_columns' = prepare_df(DeclaredColumns(schema_of.config),
                                  schema_of.folder_name)
    /\ fpc' = "schema"
    /\ UNCHANGED << drive_vars, storage_vars, label, str_once, names_once, str_twice,
                    names_twice, schema_of >>

NextFunctions ==
    \/ CleanColumnStr
    \/ CleanColumnNames
    \/ CleanAgain
    \/ CreateSchema

SpecFunctions == InitFunctions /\ [][NextFunctions]_vars

(* ----------------------- runs of the StorageConnector ----------------- *)
\* A bucket, a connector constructed with tables_to_skip, and a dataset
\* whose tables hold the rows of earlier loads.
InitStorage ==
    /\ InitDrive
    /\ NoFunction
    /\ spc = "idle"
    /\ bucket \in Buckets
    /\ tables_to_skip \in SkipLists
    /\ num_rows \in Priors
    /\ todo = << >>
    /\ blob = << >>
    /\ rows_loaded = 0
    /\ appended = 0
    /\ verdict = "none"
    /\ scrash = None
    /\ loads = EmptyBag
    /\ reran = FALSE

\* An exception leaves load_data_from_storage.
StorageCrash(cause) ==
    /\ spc' = "crashed"
    /\ scrash' = cause

\* __main__, lines 122-125: the script runs, and may be run once more over
\* the same bucket.
StartStorageRun ==
    /\ \/ spc = "idle" /\ reran' = FALSE
       \/ spc \in {"done", "crashed"} /\ ~reran /\ reran' = TRUE
    /\ spc' = "next"
    /\ todo' = BlobsOfYears(bucket, 1)
    /\ blob' = << >>
    /\ rows_loaded' = 0
    /\ appended' = 0
    /\ verdict' = "none"
    /\ scrash' = None
    /\ UNCHANGED << drive_vars, function_vars, bucket, tables_to_skip,
                    num_rows, loads >>

\* load_data_from_storage, lines 101-107: the next blob, its table name, the
\* skip test
NextBlob ==
    /\ spc = "next"
    /\ todo # << >>
    /\ blob' = Head(todo)
    /\ todo' = Tail(todo)
    /\ IF NameRaises(Head(todo))
       THEN /\ StorageCrash("get_table_name_from_blob")
            /\ verdict' = "none"
       ELSE /\ IF check_if_table_to_skip(tables_to_skip,
                                         get_table_name_from_blob(Head(todo)))
               THEN spc' = "next" /\ verdict' = "skipped"
               ELSE spc' = "upload" /\ verdict' = "none"
            /\ UNCHANGED scrash
    /\ UNCHANGED << drive_vars, function_vars, bucket, tables_to_skip,
                    num_rows, rows_loaded, appended, loads, reran >>

\* upload_data_to_bq inside the try of line 108: the load job appends the
\* data records of the blob (write disposition of a load job from a URI:
\* append) and num_rows of the table is returned; or the job fails with
\* BadRequest, which line 110 catches.  A blob without any line is loaded
\* as no rows or refused.
UploadData ==
    /\ spc = "upload"
    /\ LET content == bucket[blob]
           table_name == get_table_name_from_blob(blob)
       IN  \/ /\ content.ok
              /\ num_rows' = [num_rows EXCEPT
                                ![table_name] = @ + DataRecords(content)]
              /\ appended' = DataRecords(content)
              /\ rows_loaded' = num_rows'[table_name]
              /\ loads' = loads (+) SetToBag({blob})
              /\ spc' = "count"
              /\ UNCHANGED verdict
           \/ /\ ~content.ok \/ content.lines = 0
              /\ verdict' = "error"
              /\ spc' = "next"
              /\ UNCHANGED << num_rows, appended, rows_loaded, loads >>
    /\ UNCHANGED << drive_vars, function_vars, bucket, tables_to_skip, todo,
                    blob, scrash, reran >>

\* check_if_all_rows_uploaded, lines 90-95: count_lines and the comparison
CountAndCompare ==
    /\ spc = "count"
    /\ IF CountRaises(bucket[blob])
       THEN /\ StorageCrash("count_lines")
            /\ UNCHANGED verdict
       ELSE /\ verdict' = IF rows_loaded = count_lines(bucket[blob])
                          THEN "match"
                          ELSE "mismatch"
            /\ spc' = "next"
            /\ UNCHANGED scrash
    /\ UNCHANGED << drive_vars, function_vars, bucket, tables_to_skip,
                    num_rows, todo, blob, rows_loaded, appended, loads,
                    reran >>

\* load_data_from_storage returns
StorageRunEnds ==
    /\ spc = "next"
    /\ todo = << >>
    /\ spc' = "done"
    /\ UNCHANGED << drive_vars, function_vars, bucket, tables_to_skip,
                    num_rows, todo, blob, rows_loaded, appended, verdict,
                    scrash, loads, reran >>

NextStorage ==
    \/ StartStorageRun
    \/ NextBlob
    \/ UploadData
    \/ CountAndCompare
    \/ StorageRunEnds

SpecStorage == InitStorage /\ [][NextStorage]_vars


(* ------------------------------- claims ------------------------------- *)
a_in_folder_1 == File("a.csv", "p1", FALSE, "ok")

\* the dataset holds a row of table t whose `file` marker is n
AlreadyIngested(t, n) == t \in bq_tables /\ Loads(t, n) >= 1

NoFileSubject == "Drive to BQ Upload: No file uploaded"

\* C1: over all runs, whatever they list, no table ever receives the rows of
\* a file name from more than one load.
C1_AtMostOneLoad ==
    \A t \in Tables : \A n \in FileNames : Loads(t, n) <= 1

\* a later run met a file that an earlier run loaded, and passed it over
C1_Witness ==
    /\ pc = "loop"
    /\ item = a_in_folder_1
    /\ outcome = "SkippedAlreadyPresent"
    /\ loaded_run = <<>>
    /\ Loads(folder_1, "a.csv") = 1

\* C2: a dedup query that is answered says "already ingested" exactly when
\* the table exists and holds a row marked with the file name; asking never
\* changes the dataset; a completed load makes the file already ingested,
\* and it stays so.
C2_DedupGate ==
    [][ LET t == TargetFolder(item, folders_dict)
        IN  /\ pc = "gate" =>
                /\ bq' = bq
                /\ pc' = "loop" => AlreadyIngested(t, item.name)
                /\ pc' = "fetch" => ~AlreadyIngested(t, item.name)
                /\ pc' \in {"loop", "fetch", "crashed"}
            /\ (pc = "load" /\ outcome' = "Loaded") =>
                 AlreadyIngested(t, item.name)'
            /\ \A u \in Tables : \A n \in FileNames :
                 AlreadyIngested(u, n) => AlreadyIngested(u, n)'
      ]_vars

\* within one run the same name is listed twice: the first is loaded, the
\* gate then answers "already ingested" for the second
C2_Witness ==
    /\ pc = "loop"
    /\ outcome = "SkippedAlreadyPresent"
    /\ loaded_run = << item.name >>
    /\ ~rerun

\* C3: a run over the listing of the run before it, which loaded every
\* file of that listing, loads nothing, finds every file already present
\* and sends the "no file added" summary.
C3_RerunAddsNothing ==
    (/\ pc = "done"
     /\ rerun
     /\ prev_loaded # <<>>
     /\ Len(prev_loaded) = Len(replay))
    => /\ loaded_run = <<>>
       /\ attempts = 0
       /\ err_mails = 0
       /\ Len(summary) = 1
       /\ summary[1].subject = NoFileSubject
       /\ summary[1].files = <<>>

\* C4: the summary lists exactly the names whose load completed in this
\* run, and is the "no file added" message exactly when there is none.
C4_SummaryListsLoaded ==
    (pc = "done" /\ summary # <<>>)
    => /\ summary[1].files = loaded_run
       /\ summary[1].subject = NoFileSubject <=> loaded_run = <<>>

\* C5: a run that got its three listings has sent exactly one summary when
\* it is over, whatever it listed and whatever became of each file.
C5_ExactlyOneSummary ==
    (pc = "done" \/ (pc = "crashed" /\ crash # "discovery"))
    => Len(summary) = 1

\* C6: nothing but a failure of discovery ends a run; in particular no
\* error met while fetching or loading a file does (the dedup query is C7).
C6_OnlyDiscoveryEndsRun ==
    pc = "crashed" => crash \notin {"fetch", "load"}

\* C7: a dedup query that fails otherwise than by a missing table costs
\* that file only: the run goes on with the next item.
C7_DedupFailureIsPerFile ==
    crash # "dedup_query"

\* C8: when no listed drive has the configured name, the run is over
\* there: no folder or file listing is asked for.
C8_UnresolvedDriveAborts ==
    shared_drive_id = None => list_requests = 0

\* C9: in one run the load attempts that sleep first are exactly the 5th,
\* 10th, ...; the counter is the initial value plus the attempts that
\* returned, and it moves only in an attempt, by one.
C9_Throttle ==
    /\ [](/\ delays = {k \in 1..attempts : k % 5 = 0}
          /\ counter = 1 + attempts - (IF crash = "load" THEN 1 ELSE 0))
    /\ [][counter' # counter =>
            \/ pc = "load" /\ counter' = counter + 1
            \/ pc' = "drive"]_vars

\* six attempts in two categories, only the fifth slept first
C9_Witness ==
    /\ attempts = 6
    /\ delays = {5}
    /\ counter = 7
    /\ Loads(folder_1, "a.csv") = 1
    /\ Loads(folder_3, "a.csv") = 1

\* C10: a new instance starts with an empty list of added files and the
\* initial counter.
C10_FreshAccumulators ==
    pc = "drive" => (files_added = <<>> /\ counter = InitialCounter)

\* C11: a load that fails with a type or shape error (ValueError) on one file
\* ends that file as SkippedLoadError with exactly one error mail, changes
\* nothing in BigQuery, does not end the run, and leaves the loop where the
\* next object or the summary follows.
C11_LoadErrorIsPerFile ==
    /\ [][(pc = "load" /\ LoadRaises(item.content) = "ValueError")
             => /\ outcome' = "SkippedLoadError"
                /\ err_mails' = err_mails + 1
                /\ pc' = "loop"
                /\ crash' = None
                /\ bq' = bq
                /\ summary' = summary]_vars
    /\ [](outcome = "SkippedLoadError"
             => \/ pc = "loop"
                \/ pc = "done" /\ Len(summary) = 1)

\* c.csv fails at load, a.csv after it is loaded, the summary is sent
C11_Witness ==
    /\ pc = "done"
    /\ err_mails = 1
    /\ listing = << File("c.csv", "p1", FALSE, "badshape"), a_in_folder_1 >>
    /\ loaded_run = << "a.csv" >>
    /\ Len(summary) = 1

\* C12: a file whose parsed table has zero rows ends as SkippedEmpty with
\* exactly one error mail; it never reaches prepare_df or the load, the
\* throttle counter and the list of added files stay as they are.
C12_EmptyIsSkipped ==
    /\ [][(pc = "fetch" /\ item.content = "empty")
             => /\ outcome' = "SkippedEmpty"
                /\ err_mails' = err_mails + 1
                /\ pc' = "loop"
                /\ counter' = counter
                /\ attempts' = attempts
                /\ files_added' = files_added
                /\ bq' = bq]_vars
    /\ [](pc = "load" => item.content # "empty")

\* a run over e.csv alone: one error mail, nothing added, nothing counted
C12_Witness ==
    /\ pc = "done"
    /\ listing = << File("e.csv", "p1", FALSE, "empty") >>
    /\ outcome = "SkippedEmpty"
    /\ err_mails = 1
    /\ files_added = << >>
    /\ counter = InitialCounter
    /\ attempts = 0
    /\ summary[1].subject = NoFileSubject

\* an item the loop drops: trashed, or in a container the folder listing
\* does not name, or in a folder that is not one of configs['all_folders']
Dropped(it) ==
    \/ it.trashed
    \/ it.parents[1] \notin DOMAIN folders_dict
    \/ folders_dict[it.parents[1]] \notin all_folders

DroppedNames == {"t.csv", "s.csv", "x.csv", "u.csv"}

\* C13: an object that is trashed, or whose container is unresolved or not
\* allow-listed, is never dedup-queried, fetched or loaded, causes no mail,
\* and is never listed as added.
C13_DroppedNeverProcessed ==
    /\ [][(pc = "loop" /\ pos' = pos + 1 /\ Dropped(item'))
             => /\ pc' = "loop"
                /\ bq' = bq
                /\ err_mails' = err_mails
                /\ summary' = summary
                /\ files_added' = files_added
                /\ counter' = counter
                /\ attempts' = attempts]_vars
    /\ [](pc \in {"gate", "fetch", "load"} => ~Dropped(item))
    /\ [](\A i \in DOMAIN files_added : files_added[i] \notin DroppedNames)

\* a run whose last object is in "folder 1" (not "folder_1"): passed over
C13_Witness ==
    /\ pc = "done"
    /\ item = File("s.csv", "ps", FALSE, "ok")
    /\ outcome = "SkippedFilteredOut"
    /\ bq_tables = {}
    /\ err_mails = 0
    /\ files_added = << >>
    /\ summary[1].subject = NoFileSubject

\* C14: cleaning a column name is idempotent: clean_column_str and
\* clean_column_names give, on their own results, these results again.
C14_CleaningIsIdempotent ==
    fpc = "again" => /\ str_twice = str_once
                     /\ names_twice = names_once

\* C15: in the StorageConnector the row-count verification never ends the
\* run: whatever the blob holds and whatever row count the load reports,
\* count_lines and the comparison complete and the loop goes on.
C15_VerificationNeverAborts == scrash # "count_lines"

\* C16: the StorageConnector loads each blob at most once: running
\* load_data_from_storage again over the same blobs appends no blob's rows a
\* second time.
C16_BlobLoadedOnce ==
    \A n \in DOMAIN bucket :
        DataRecords(bucket[n]) > 0 => CopiesIn(n, loads) <= 1

\* C17: the schema create_schema derives for a config entry has one field
\* per declared column, in the order of the declaration, followed by one
\* TIMESTAMP field per date column, in order: len(dtypes) + len(date_cols)
\* fields, date_cols counting as none when the entry has no such key.
C17_SchemaShape ==
    fpc = "schema" =>
        LET config == schema_of.config
            n == Len(config.dtypes)
            dates == IF "date_cols" \in DOMAIN config
                     THEN config["date_cols"]
                     ELSE << >>
        IN  /\ Len(schema) = n + Len(dates)
            /\ \A i \in 1..n :
                 /\ schema[i].description = config.dtypes[i][1]
                 /\ schema[i].type \in {"INT64", "STRING", "FLOAT64", "BOOLEAN"}
            /\ \A j \in 1..Len(dates) :
                 /\ schema[n + j].description = dates[j]
                 /\ schema[n + j].type = "TIMESTAMP"

\* the entry of folder_3 as configs has it: seven columns and date_col
C17_Witness ==
    /\ fpc = "schema"
    /\ schema_of = [folder_name |-> folder_3, config |-> configs[folder_3]]
    /\ Len(schema) = 8
    /\ schema[4] = [name |-> column_("4"), type |-> "FLOAT64",
                    description |-> column_("4")]
    /\ schema[8] = [name |-> date_col, type |-> "TIMESTAMP",
                    description |-> date_col]

\* C18: in the StorageConnector the verification reports a match exactly
\* when the load appended the data records of the blob (its lines after the
\* header line), whatever the table held before.
C18_VerdictTellsAppended ==
    verdict \in {"match", "mismatch"}
        => (verdict = "match" <=> appended = DataRecords(bucket[blob]))

\* C19: clean_column_str gives for a label what clean_column_names gives for
\* it as an element of an index, so the name of every schema field equals
\* the name prepare_df gives the data column declared under the same label.
C19_SameNames ==
    /\ fpc \in {"names", "again"} => names_once[2] = str_once
    /\ fpc = "schema" =>
         /\ Len(data_columns) = Len(schema) + 2
         /\ \A i \in DOMAIN schema : schema[i].name = data_columns[i + 1]

\* the label "[+]": "plus" from both functions
C19_Witness ==
    /\ fpc = "names"
    /\ label = << "[", "+", "]" >>
    /\ str_once = plus
    /\ names_once = << ts_ms, plus, file >>

\* C20: a run takes the listed objects one at a time, in the order of the
\* listing; the load of an object is complete, its rows in the table, before
\* the dedup query of the next object, so of two listed objects with one
\* name in one folder the second is skipped as already present when the
\* first was loaded.
C20_OneAtATime ==
    /\ [][pos' # pos => \/ pc = "loop" /\ pos' = pos + 1
                        \/ pc' = "drive"]_vars
    /\ [][(pc = "load" /\ outcome' = "Loaded")
             => /\ pc' = "loop"
                /\ Loads(TargetFolder(item, folders_dict), item.name)' >= 1]_vars
    /\ [][(/\ pc = "gate"
           /\ pc' # "crashed"
           /\ Loads(TargetFolder(item, folders_dict), item.name) >= 1)
             => /\ outcome' = "SkippedAlreadyPresent"
                /\ pc' = "loop"
                /\ bq' = bq]_vars
    /\ [](pc \in {"fetch", "load"}
             => Loads(TargetFolder(item, folders_dict), item.name) = 0)

\* a listing of a.csv of folder_1 twice: loaded once, skipped once
C20_Witness ==
    /\ pc = "done"
    /\ ~rerun
    /\ listing = << a_in_folder_1, a_in_folder_1 >>
    /\ outcome = "SkippedAlreadyPresent"
    /\ loaded_run = << "a.csv" >>
    /\ files_added = << "a.csv" >>
    /\ Loads(folder_1, "a.csv") = 1

=============================================================================
